---- MODULE Spec2Model ----
(***************************************************************************)
(* A model of the chat server (server.c: acceptor, session workers, user   *)
(* and room registries, upload queue, transfer worker, SIGINT handler).    *)
(* Every thread is a little program counter machine; a step is one access  *)
(* to shared memory or one critical section.  Sections that run under a    *)
(* mutex are split wherever code that does not take that mutex can read or *)
(* write the same fields in between.                                       *)
(***************************************************************************)
EXTENDS Integers, Sequences, FiniteSets, TLC

\* ---------------------------------------------------------------- bounds
\* server.c sets MAX_CLIENTS 15, MAX_ROOMS 10, MAX_UPLOAD_QUEUE 5; the model
\* runs the same code over smaller arrays.
MAX_CLIENTS == 2
MAX_ROOMS == 2
MAX_UPLOAD_QUEUE == 2
\* connections the acceptor takes in one run (one worker thread each)
MaxConns == 3
\* lines (username replies and commands) one session worker reads in one run
MaxCmds == 2

\* ---------------------------------------------------------------- program constants
MAX_USERNAME_LEN == 16
MAX_ROOM_NAME_LEN == 32
MAX_FILE_SIZE == 3145728

\* ---------------------------------------------------------------- data
Slots == 0 .. (MAX_CLIENTS - 1)
RoomSlots == 0 .. (MAX_ROOMS - 1)
Conns == 1 .. MaxConns
\* thread ids: the acceptor (main), one worker per connection, the transfer worker
MainT == 0
Workers == Conns
XferT == MaxConns + 1
Threads == {MainT} \cup Workers \cup {XferT}
NoThread == -1
NoSlot == -1
NoSock == -1

\* strings are sequences of one-character strings; the empty string is <<>>
Empty == <<>>
LF == "\n"
Alnum == {"a", "b", "c", "x", "y", "z", "A", "0"}
\* what a peer may send in reply to the username prompt
GoodNameInputs == {<<"a", LF>>, <<"b", LF>>}
NameInputs == GoodNameInputs \cup {<<"!", LF>>}
RoomNames == {<<"x">>, <<"y">>}
\* the names of the sessions that are already registered when a room or queue run starts
NameList == <<"a", "b", "c", "x", "y", "z", "A", "0">>

\* a command line as client_handler parses it: the command, its name argument
\* (room or target user) and, for /sendfile, the file
NoCmd == [op |-> "none", a |-> Empty, f |-> "none"]
JoinCmds == {[op |-> "join", a |-> r, f |-> "none"] : r \in RoomNames}
BadJoinCmd == [op |-> "join", a |-> <<"!">>, f |-> "none"]
LeaveCmd == [op |-> "leave", a |-> Empty, f |-> "none"]
ExitCmd == [op |-> "exit", a |-> Empty, f |-> "none"]
BcastCmd == [op |-> "broadcast", a |-> Empty, f |-> "none"]
\* a segment that holds nothing but the LF: the line is empty once stripped
EmptyLineCmd == [op |-> "empty", a |-> Empty, f |-> "none"]
WhisperCmds == {[op |-> "whisper", a |-> <<n>>, f |-> "none"] : n \in {"a", "b", "0"}}
\* the files a /sendfile may name: the length of the path, what follows its last
\* '.', whether stat() succeeds, st_size
FileTable ==
    [small |-> [len |-> 9, ext |-> ".txt", stat |-> TRUE, size |-> 10240],
     big   |-> [len |-> 7, ext |-> ".pdf", stat |-> TRUE, size |-> 4194304],
     exe   |-> [len |-> 9, ext |-> ".exe", stat |-> TRUE, size |-> 10240],
     gone  |-> [len |-> 8, ext |-> ".txt", stat |-> FALSE, size |-> 0]]
FileOf(f) == FileTable[f]

\* the four mutexes of the server
Locks == {"clients_mutex", "rooms_mutex", "upload_queue.mutex", "log_mutex"}

VARIABLES
    clients,        \* Client clients[MAX_CLIENTS]: active, username, current_room, socket
    rooms,          \* Room rooms[MAX_ROOMS]: name, members (members[0..member_count-1]), active
    clients_mutex,  \* the thread holding clients_mutex, or NoThread
    rooms_mutex,    \* the thread holding rooms_mutex, or NoThread
    server_running, \* int server_running
    exited,         \* the process has called exit(0)
    mpc,            \* acceptor: where main's accept loop stands
    mconn,          \* acceptor: client_socket of the connection being admitted
    mslot,          \* acceptor: slot
    naccepted,      \* connections accept() has returned so far
    pc,             \* session worker: position in client_handler and its callees
    cslot,          \* session worker: Client* client (a slot of clients[])
    uname,          \* session worker: char username[] local to client_handler
    arg,            \* session worker: the room name or target of the command in hand
    roomp,          \* session worker: Room* room returned by find_or_create_room
    ret,            \* session worker: where handle_leave_room returns to
    ncmd,           \* session worker: lines read so far
    upq,            \* UploadQueue: queue[], front, rear, count, mutex, slots, items
    xpc,            \* transfer worker: position in file_transfer_handler
    xrec,           \* transfer worker: FileTransfer transfer (the record dequeued)
    sigpc,          \* SIGINT handler: position in signal_handler
    sigT,           \* the thread the handler interrupted
    sigcount,       \* SIGINT handler: active_count
    sent,           \* per connection: how many lines of each tracked kind were sent to it
    connst,         \* per connection: "none", "open", "closed" (the server's side)
    logged,         \* events written to the log, counted by tag
    committed,      \* ids of the transfers enqueued, in commit order
    processed,      \* ids of the transfers dequeued by the transfer worker, in order
    released,       \* how many times the transfer worker has posted slots
    immediate,      \* how many sem_trywait(slots) calls of /sendfile succeeded
    waited,         \* per worker: -1, or what released was when it got the queue-full notice
    sigactive,      \* the connections whose session was active and open when SIGINT came
    reg,            \* per worker: its strcpy(client->username, username) has run
    broom,          \* session worker: i of broadcast_to_room (the room found), or NoSlot
    bcur,           \* session worker: j of broadcast_to_room, counted from 1
    border,         \* the broadcasts in the order their fan-outs took rooms_mutex
    rcv,            \* per connection: the broadcasts whose room line it was sent, in order
    holder,         \* lock by lock: the thread that holds it, or NoThread
    ops             \* thread by thread: the lock, send and log steps its handler has left

vars == <<clients, rooms, clients_mutex, rooms_mutex, server_running, exited,
          mpc, mconn, mslot, naccepted, pc, cslot, uname, arg, roomp, ret, ncmd,
          upq, xpc, xrec, sigpc, sigT, sigcount, sent, connst, logged,
          committed, processed, released, immediate, waited, sigactive, reg,
          broom, bcur, border, rcv, holder, ops>>

sessVars == <<clients, clients_mutex, pc, cslot, uname, arg, roomp, ret, ncmd>>
mainVars == <<mpc, mconn, mslot, naccepted>>
roomVars == <<rooms, rooms_mutex>>
queueVars == <<upq, xpc, xrec, committed, processed, released, immediate, waited>>
sigVars == <<server_running, exited, sigpc, sigT, sigcount>>
ghostVars == <<sent, connst, logged>>
obsVars == <<sigactive, reg>>
fanVars == <<broom, bcur, border, rcv>>
lockVars == <<holder, ops>>
stepVars == <<fanVars, lockVars>>

\* ---------------------------------------------------------------- strings
\* strchr(buf, '\n'); if (newline) *newline = '\0'
RECURSIVE StripNewline(_)
StripNewline(buf) ==
    IF buf = Empty THEN Empty
    ELSE IF Head(buf) = LF THEN Empty
    ELSE <<Head(buf)>> \o StripNewline(Tail(buf))

IsAlnumStr(s) == \A i \in 1 .. Len(s) : s[i] \in Alnum

validate_username(u) == u # Empty /\ Len(u) <= MAX_USERNAME_LEN /\ IsAlnumStr(u)

validate_room_name(r) == r # Empty /\ Len(r) <= MAX_ROOM_NAME_LEN /\ IsAlnumStr(r)

\* ---------------------------------------------------------------- sockets and log
Kinds == {"full", "qfull", "file", "shutdown", "prompt", "taken", "noroom",
          "bcast", "bcast_ok", "toobig", "whisper", "whisper_ok", "notfound",
          "unable", "badroom", "badname"}
LogTags == {"REJECTED", "DISCONNECT", "SHUTDOWN", "ERROR", "SEND FILE ok", "SEND FILE failed",
            "WHISPER"}

\* send(socket, message): a line of a tracked kind reaches the peer of an open socket
SendTo(s, sock, kind) ==
    IF sock \in Conns /\ kind \in Kinds /\ connst[sock] = "open"
    THEN [s EXCEPT ![sock][kind] = @ + 1]
    ELSE s

\* log_message(...): one record appended under log_mutex
LogTo(l, tag) == IF tag \in LogTags THEN [l EXCEPT ![tag] = @ + 1] ELSE l

\* ---------------------------------------------------------------- registries
\* the first slot i with clients[i].active and strcmp(clients[i].username, u) == 0
find_client_by_username(u) ==
    LET hits == {i \in Slots : clients[i].active /\ clients[i].username = u}
    IN  IF hits = {} THEN NoSlot ELSE CHOOSE i \in hits : \A j \in hits : i <= j

\* the first index of slot set S, or NoSlot
FirstOf(S) == IF S = {} THEN NoSlot ELSE CHOOSE i \in S : \A j \in S : i <= j

\* a thread runs unless the process exited or the handler interrupted it
Runnable(t) == ~exited /\ (sigpc = "none" \/ sigT # t)

\* ---------------------------------------------------------------- initial states
EmptyClient == [active |-> FALSE, username |-> Empty, current_room |-> Empty, socket |-> NoSock]
EmptyRoom == [name |-> Empty, members |-> <<>>, active |-> FALSE]
NoRec == [id |-> 0, sender |-> Empty, receiver |-> Empty]
EmptyQueue == [queue |-> [i \in 0 .. (MAX_UPLOAD_QUEUE - 1) |-> NoRec], front |-> 0, rear |-> 0,
               count |-> 0, mutex |-> NoThread, slots |-> MAX_UPLOAD_QUEUE, items |-> 0]

\* main() up to the accept loop: nothing connected, no room, the queue empty
Init ==
    /\ clients = [i \in Slots |-> EmptyClient]
    /\ rooms = [i \in RoomSlots |-> EmptyRoom]
    /\ clients_mutex = NoThread
    /\ rooms_mutex = NoThread
    /\ server_running = TRUE
    /\ exited = FALSE
    /\ mpc = "accept"
    /\ mconn = NoSock
    /\ mslot = NoSlot
    /\ naccepted = 0
    /\ pc = [t \in Workers |-> "unborn"]
    /\ cslot = [t \in Workers |-> NoSlot]
    /\ uname = [t \in Workers |-> Empty]
    /\ arg = [t \in Workers |-> NoCmd]
    /\ roomp = [t \in Workers |-> NoSlot]
    /\ ret = [t \in Workers |-> "none"]
    /\ ncmd = [t \in Workers |-> 0]
    /\ upq = EmptyQueue
    /\ xpc = "x_top"
    /\ xrec = NoRec
    /\ sigpc = "none"
    /\ sigT = NoThread
    /\ sigcount = 0
    /\ sent = [c \in Conns |-> [k \in Kinds |-> 0]]
    /\ connst = [c \in Conns |-> "none"]
    /\ logged = [g \in LogTags |-> 0]
    /\ committed = <<>>
    /\ processed = <<>>
    /\ released = 0
    /\ immediate = 0
    /\ waited = [t \in Workers |-> -1]
    /\ sigactive = {}
    /\ reg = [t \in Workers |-> FALSE]
    /\ broom = [t \in Workers |-> NoSlot]
    /\ bcur = [t \in Workers |-> 0]
    /\ border = <<>>
    /\ rcv = [c \in Conns |-> <<>>]
    /\ holder = [l \in Locks |-> NoThread]
    /\ ops = [t \in Threads |-> <<>>]

\* ---------------------------------------------------------------- acceptor (main)
\* accept() returns a new connection
MainAccept ==
    /\ Runnable(MainT) /\ mpc = "accept" /\ server_running
    /\ naccepted < MaxConns
    /\ naccepted' = naccepted + 1
    /\ mconn' = naccepted + 1
    /\ connst' = [connst EXCEPT ![naccepted + 1] = "open"]
    /\ mpc' = "scan"
    /\ UNCHANGED <<mslot, sessVars, roomVars, queueVars, sigVars, obsVars, stepVars, sent, logged>>

\* MainScan without the "slot == -1" rejection: a full server hands out slot 0 again
MainScanNoCap ==
    /\ Runnable(MainT) /\ mpc = "scan" /\ clients_mutex = NoThread
    /\ LET free == FirstOf({i \in Slots : ~clients[i].active})
           slot == IF free = NoSlot THEN 0 ELSE free IN
       /\ clients' = [clients EXCEPT ![slot].socket = mconn, ![slot].active = TRUE]
       /\ clients_mutex' = MainT
       /\ mslot' = slot
       /\ mpc' = "init_room"
    /\ UNCHANGED <<mconn, naccepted, pc, cslot, uname, arg, roomp, ret, ncmd,
                   roomVars, queueVars, sigVars, obsVars, stepVars, ghostVars>>

\* lock clients_mutex, look for a slot; none: unlock, "Server full", close.
\* One found: clients[slot].socket = client_socket; clients[slot].active = 1
MainScan ==
    /\ Runnable(MainT) /\ mpc = "scan" /\ clients_mutex = NoThread
    /\ LET slot == FirstOf({i \in Slots : ~clients[i].active}) IN
       IF slot = NoSlot
       THEN /\ sent' = SendTo(sent, mconn, "full")
            /\ connst' = [connst EXCEPT ![mconn] = "closed"]
            /\ mpc' = "accept"
            /\ UNCHANGED <<clients, clients_mutex, mslot>>
       ELSE /\ clients' = [clients EXCEPT ![slot].socket = mconn, ![slot].active = TRUE]
            /\ clients_mutex' = MainT
            /\ mslot' = slot
            /\ mpc' = "init_room"
            /\ UNCHANGED <<sent, connst>>
    /\ UNCHANGED <<mconn, naccepted, pc, cslot, uname, arg, roomp, ret, ncmd,
                   roomVars, queueVars, sigVars, obsVars, stepVars, logged>>

\* clients[slot].current_room[0] = '\0'
MainInitRoom ==
    /\ Runnable(MainT) /\ mpc = "init_room"
    /\ clients' = [clients EXCEPT ![mslot].current_room = Empty]
    /\ mpc' = "init_name"
    /\ UNCHANGED <<clients_mutex, mconn, mslot, naccepted, pc, cslot, uname, arg, roomp,
                   ret, ncmd, roomVars, queueVars, sigVars, obsVars, stepVars, ghostVars>>

\* clients[slot].username[0] = '\0'; unlock; pthread_create(client_handler, &clients[slot])
MainInitName ==
    /\ Runnable(MainT) /\ mpc = "init_name"
    /\ clients' = [clients EXCEPT ![mslot].username = Empty]
    /\ clients_mutex' = NoThread
    /\ pc' = [pc EXCEPT ![mconn] = "name_loop"]
    /\ cslot' = [cslot EXCEPT ![mconn] = mslot]
    /\ mpc' = "accept"
    /\ UNCHANGED <<mconn, mslot, naccepted, uname, arg, roomp, ret, ncmd,
                   roomVars, queueVars, sigVars, obsVars, stepVars, ghostVars>>

Main == MainAccept \/ MainScan \/ MainInitRoom \/ MainInitName

\* ---------------------------------------------------------------- session worker: naming
Slot(t) == cslot[t]
Me(t) == clients[cslot[t]]

\* while (server_running && client->active): send the prompt, then recv
NameLoop(t) ==
    /\ Runnable(t) /\ pc[t] = "name_loop"
    /\ IF server_running /\ Me(t).active
       THEN /\ sent' = SendTo(sent, Me(t).socket, "prompt")
            /\ pc' = [pc EXCEPT ![t] = "name_recv"]
       ELSE /\ pc' = [pc EXCEPT ![t] = "post_loop"]
            /\ UNCHANGED sent
    /\ UNCHANGED <<clients, clients_mutex, cslot, uname, arg, roomp, ret, ncmd,
                   mainVars, roomVars, queueVars, sigVars, obsVars, stepVars, connst, logged>>

\* recv returned <= 0: cleanup_client, return
NameRecvClosed(t) ==
    /\ Runnable(t) /\ pc[t] = "name_recv"
    /\ pc' = [pc EXCEPT ![t] = "cleanup"]
    /\ UNCHANGED <<clients, clients_mutex, cslot, uname, arg, roomp, ret, ncmd,
                   mainVars, roomVars, queueVars, sigVars, obsVars, stepVars, ghostVars>>

\* NameRecv that leaves the naming loop on a well-formed name without the
\* locked lookup and commit
NameRecvNoCommit(t, inputs) ==
    /\ Runnable(t) /\ pc[t] = "name_recv" /\ ncmd[t] < MaxCmds
    /\ \E buf \in inputs :
         LET u == StripNewline(buf) IN
         /\ uname' = [uname EXCEPT ![t] = u]
         /\ pc' = [pc EXCEPT ![t] = IF validate_username(u) THEN "post_loop" ELSE "name_loop"]
         /\ sent' = IF validate_username(u) THEN sent ELSE SendTo(sent, Me(t).socket, "badname")
    /\ ncmd' = [ncmd EXCEPT ![t] = @ + 1]
    /\ UNCHANGED <<clients, clients_mutex, cslot, arg, roomp, ret,
                   mainVars, roomVars, queueVars, sigVars, obsVars, stepVars, connst, logged>>

\* recv returned a segment, one of inputs: strip the newline, validate_username;
\* an invalid name gets the error and the loop goes round
NameRecv(t, inputs) ==
    /\ Runnable(t) /\ pc[t] = "name_recv" /\ ncmd[t] < MaxCmds
    /\ \E buf \in inputs :
         LET u == StripNewline(buf) IN
         /\ uname' = [uname EXCEPT ![t] = u]
         /\ pc' = [pc EXCEPT ![t] = IF validate_username(u) THEN "name_lock" ELSE "name_loop"]
         /\ sent' = IF validate_username(u) THEN sent ELSE SendTo(sent, Me(t).socket, "badname")
    /\ ncmd' = [ncmd EXCEPT ![t] = @ + 1]
    /\ UNCHANGED <<clients, clients_mutex, cslot, arg, roomp, ret,
                   mainVars, roomVars, queueVars, sigVars, obsVars, stepVars, connst, logged>>

\* NameLock that sends the error but writes no REJECTED record
NameLockNoRecord(t) ==
    /\ Runnable(t) /\ pc[t] = "name_lock" /\ clients_mutex = NoThread
    /\ IF find_client_by_username(uname[t]) # NoSlot
       THEN /\ sent' = SendTo(sent, Me(t).socket, "taken")
            /\ pc' = [pc EXCEPT ![t] = "name_loop"]
            /\ UNCHANGED <<clients, reg>>
       ELSE /\ clients' = [clients EXCEPT ![Slot(t)].username = uname[t]]
            /\ reg' = [reg EXCEPT ![t] = TRUE]
            /\ pc' = [pc EXCEPT ![t] = "post_loop"]
            /\ UNCHANGED sent
    /\ UNCHANGED <<clients_mutex, cslot, uname, arg, roomp, ret, ncmd, logged,
                   mainVars, roomVars, queueVars, sigVars, sigactive, stepVars, connst>>

\* under clients_mutex: find_client_by_username; taken: unlock, error, log REJECTED,
\* loop; free: strcpy(client->username, username), unlock, break
NameLock(t) ==
    /\ Runnable(t) /\ pc[t] = "name_lock" /\ clients_mutex = NoThread
    /\ IF find_client_by_username(uname[t]) # NoSlot
       THEN /\ sent' = SendTo(sent, Me(t).socket, "taken")
            /\ logged' = LogTo(logged, "REJECTED")
            /\ pc' = [pc EXCEPT ![t] = "name_loop"]
            /\ UNCHANGED <<clients, reg>>
       ELSE /\ clients' = [clients EXCEPT ![Slot(t)].username = uname[t]]
            /\ reg' = [reg EXCEPT ![t] = TRUE]
            /\ pc' = [pc EXCEPT ![t] = "post_loop"]
            /\ UNCHANGED <<logged, sent>>
    /\ UNCHANGED <<clients_mutex, cslot, uname, arg, roomp, ret, ncmd,
                   mainVars, roomVars, queueVars, sigVars, sigactive, stepVars, connst>>

\* if (!client->active || !server_running) cleanup_client; else LOGIN and the greeting
PostLoop(t) ==
    /\ Runnable(t) /\ pc[t] = "post_loop"
    /\ pc' = [pc EXCEPT ![t] = IF ~Me(t).active \/ ~server_running THEN "cleanup" ELSE "cmd_loop"]
    /\ UNCHANGED <<clients, clients_mutex, cslot, uname, arg, roomp, ret, ncmd,
                   mainVars, roomVars, queueVars, sigVars, obsVars, stepVars, ghostVars>>

\* ---------------------------------------------------------------- session worker: commands

\* while (server_running && client->active)
CmdLoop(t) ==
    /\ Runnable(t) /\ pc[t] = "cmd_loop"
    /\ pc' = [pc EXCEPT ![t] = IF server_running /\ Me(t).active THEN "cmd_recv" ELSE "cleanup"]
    /\ UNCHANGED <<clients, clients_mutex, cslot, uname, arg, roomp, ret, ncmd,
                   mainVars, roomVars, queueVars, sigVars, obsVars, stepVars, ghostVars>>

\* recv returned <= 0: break
CmdRecvClosed(t) ==
    /\ Runnable(t) /\ pc[t] = "cmd_recv"
    /\ pc' = [pc EXCEPT ![t] = "cleanup"]
    /\ UNCHANGED <<clients, clients_mutex, cslot, uname, arg, roomp, ret, ncmd,
                   mainVars, roomVars, queueVars, sigVars, obsVars, stepVars, ghostVars>>

\* where the dispatch of client_handler sends a command
Dispatch(cmd) ==
    CASE cmd.op = "join" -> "join"
      [] cmd.op = "leave" -> "leave"
      [] cmd.op = "broadcast" -> "bcast"
      [] cmd.op = "whisper" -> "whisper"
      [] cmd.op = "sendfile" -> "sf_start"
      [] cmd.op = "exit" -> "cleanup"
      [] OTHER -> "cmd_loop"

\* recv returned a command line, one of cmds
CmdRecv(t, cmds) ==
    /\ Runnable(t) /\ pc[t] = "cmd_recv" /\ ncmd[t] < MaxCmds
    /\ \E cmd \in cmds :
         /\ pc' = [pc EXCEPT ![t] = Dispatch(cmd)]
         /\ arg' = [arg EXCEPT ![t] = cmd]
    /\ ncmd' = [ncmd EXCEPT ![t] = @ + 1]
    /\ ret' = [ret EXCEPT ![t] = "cmd_loop"]
    /\ UNCHANGED <<clients, clients_mutex, cslot, uname, roomp,
                   mainVars, roomVars, queueVars, sigVars, obsVars, stepVars, ghostVars>>

\* ---------------------------------------------------------------- rooms
\* handle_leave_room: not in a room: error, return.  Else under rooms_mutex: the
\* first active room named current_room loses this client (the rest keep their
\* order) and is deactivated when it is left empty
RECURSIVE RemoveFirst(_, _)
RemoveFirst(ms, c) ==
    IF ms = <<>> THEN <<>>
    ELSE IF Head(ms) = c THEN Tail(ms)
    ELSE <<Head(ms)>> \o RemoveFirst(Tail(ms), c)

LeaveRooms(rs, c, name) ==
    LET i == FirstOf({j \in RoomSlots : rs[j].active /\ rs[j].name = name}) IN
    IF i = NoSlot THEN rs
    ELSE LET ms == RemoveFirst(rs[i].members, c) IN
         [rs EXCEPT ![i].members = ms, ![i].active = (ms # <<>>)]

\* Leave that, outside a room, clears every member list instead of replying
LeaveNoGuard(t) ==
    /\ Runnable(t) /\ pc[t] = "leave"
    /\ IF Me(t).current_room = Empty
       THEN /\ rooms' = [i \in RoomSlots |-> [rooms[i] EXCEPT !.members = <<>>]]
            /\ pc' = [pc EXCEPT ![t] = ret[t]]
       ELSE /\ rooms_mutex = NoThread
            /\ rooms' = LeaveRooms(rooms, Slot(t), Me(t).current_room)
            /\ pc' = [pc EXCEPT ![t] = "leave_clear"]
    /\ UNCHANGED <<clients, clients_mutex, cslot, uname, arg, roomp, ret, ncmd, rooms_mutex,
                   mainVars, queueVars, sigVars, obsVars, stepVars, ghostVars>>

Leave(t) ==
    /\ Runnable(t) /\ pc[t] = "leave"
    /\ IF Me(t).current_room = Empty
       THEN /\ sent' = SendTo(sent, Me(t).socket, "noroom")
            /\ pc' = [pc EXCEPT ![t] = ret[t]]
            /\ UNCHANGED rooms
       ELSE /\ rooms_mutex = NoThread
            /\ rooms' = LeaveRooms(rooms, Slot(t), Me(t).current_room)
            /\ pc' = [pc EXCEPT ![t] = "leave_clear"]
            /\ UNCHANGED sent
    /\ UNCHANGED <<clients, clients_mutex, cslot, uname, arg, roomp, ret, ncmd, rooms_mutex,
                   mainVars, queueVars, sigVars, obsVars, stepVars, connst, logged>>

\* the reply, the LEAVE record, then client->current_room[0] = '\0'
LeaveClear(t) ==
    /\ Runnable(t) /\ pc[t] = "leave_clear"
    /\ clients' = [clients EXCEPT ![Slot(t)].current_room = Empty]
    /\ pc' = [pc EXCEPT ![t] = ret[t]]
    /\ UNCHANGED <<clients_mutex, cslot, uname, arg, roomp, ret, ncmd,
                   mainVars, roomVars, queueVars, sigVars, obsVars, stepVars, ghostVars>>

\* handle_join_room: validate_room_name, then leave the current room if any
Join(t) ==
    /\ Runnable(t) /\ pc[t] = "join"
    /\ IF ~validate_room_name(arg[t].a)
       THEN /\ sent' = SendTo(sent, Me(t).socket, "badroom")
            /\ pc' = [pc EXCEPT ![t] = "cmd_loop"]
            /\ UNCHANGED ret
       ELSE IF Me(t).current_room # Empty
       THEN pc' = [pc EXCEPT ![t] = "leave"] /\ ret' = [ret EXCEPT ![t] = "foc1"] /\ UNCHANGED sent
       ELSE pc' = [pc EXCEPT ![t] = "foc1"] /\ UNCHANGED <<ret, sent>>
    /\ UNCHANGED <<clients, clients_mutex, cslot, uname, arg, roomp, ncmd,
                   mainVars, roomVars, queueVars, sigVars, obsVars, stepVars, connst, logged>>

\* find_or_create_room, first loop: an active room of that name
Foc1(t) ==
    /\ Runnable(t) /\ pc[t] = "foc1"
    /\ LET i == FirstOf({j \in RoomSlots : rooms[j].active /\ rooms[j].name = arg[t].a}) IN
       /\ roomp' = [roomp EXCEPT ![t] = i]
       /\ pc' = [pc EXCEPT ![t] = IF i = NoSlot THEN "foc2" ELSE "join_lock"]
    /\ UNCHANGED <<clients, clients_mutex, cslot, uname, arg, ret, ncmd,
                   mainVars, roomVars, queueVars, sigVars, obsVars, stepVars, ghostVars>>

\* find_or_create_room, second loop: the first inactive slot gets the name; none:
\* return NULL ("Unable to join room")
Foc2(t) ==
    /\ Runnable(t) /\ pc[t] = "foc2"
    /\ LET i == FirstOf({j \in RoomSlots : ~rooms[j].active}) IN
       /\ roomp' = [roomp EXCEPT ![t] = i]
       /\ IF i = NoSlot
          THEN /\ pc' = [pc EXCEPT ![t] = "cmd_loop"]
               /\ sent' = SendTo(sent, Me(t).socket, "unable")
               /\ UNCHANGED rooms
          ELSE /\ pc' = [pc EXCEPT ![t] = "foc_act"]
               /\ rooms' = [rooms EXCEPT ![i].name = arg[t].a]
               /\ UNCHANGED sent
    /\ UNCHANGED <<clients, clients_mutex, cslot, uname, arg, ret, ncmd, rooms_mutex,
                   mainVars, queueVars, sigVars, obsVars, stepVars, connst, logged>>

\* rooms[i].active = 1
FocAct(t) ==
    /\ Runnable(t) /\ pc[t] = "foc_act"
    /\ rooms' = [rooms EXCEPT ![roomp[t]].active = TRUE]
    /\ pc' = [pc EXCEPT ![t] = "foc_cnt"]
    /\ UNCHANGED <<clients, clients_mutex, cslot, uname, arg, roomp, ret, ncmd, rooms_mutex,
                   mainVars, queueVars, sigVars, obsVars, stepVars, ghostVars>>

\* rooms[i].member_count = 0; return &rooms[i]
FocCnt(t) ==
    /\ Runnable(t) /\ pc[t] = "foc_cnt"
    /\ rooms' = [rooms EXCEPT ![roomp[t]].members = <<>>]
    /\ pc' = [pc EXCEPT ![t] = "join_lock"]
    /\ UNCHANGED <<clients, clients_mutex, cslot, uname, arg, roomp, ret, ncmd, rooms_mutex,
                   mainVars, queueVars, sigVars, obsVars, stepVars, ghostVars>>

\* under rooms_mutex: full: error; else room->members[room->member_count++] = client,
\* strcpy(client->current_room, room_name); then the reply and the JOIN record
JoinLock(t) ==
    /\ Runnable(t) /\ pc[t] = "join_lock" /\ rooms_mutex = NoThread
    /\ IF Len(rooms[roomp[t]].members) >= MAX_CLIENTS
       THEN UNCHANGED <<rooms, clients>>
       ELSE /\ rooms' = [rooms EXCEPT ![roomp[t]].members = Append(@, Slot(t))]
            /\ clients' = [clients EXCEPT ![Slot(t)].current_room = arg[t].a]
    /\ pc' = [pc EXCEPT ![t] = "cmd_loop"]
    /\ UNCHANGED <<clients_mutex, cslot, uname, arg, roomp, ret, ncmd, rooms_mutex,
                   mainVars, queueVars, sigVars, obsVars, stepVars, ghostVars>>

\* ---------------------------------------------------------------- /broadcast
\* the loop of broadcast_to_room over members[0..member_count-1]: a member that is
\* active and whose username differs from the sender's gets the line
RECURSIVE FanOut(_, _, _)
FanOut(s, ms, sender) ==
    IF ms = <<>> THEN s
    ELSE LET m == clients[Head(ms)]
             s1 == IF m.active /\ m.username # sender THEN SendTo(s, m.socket, "bcast") ELSE s
         IN  FanOut(s1, Tail(ms), sender)

\* the lines broadcast_to_room sends: the first active room of that name, if any
broadcast_to_room(s, room_name, sender) ==
    LET i == FirstOf({j \in RoomSlots : rooms[j].active /\ rooms[j].name = room_name}) IN
    IF i = NoSlot THEN s ELSE FanOut(s, rooms[i].members, sender)

\* handle_broadcast: not in a room: "Join a room first", return
Bcast(t) ==
    /\ Runnable(t) /\ pc[t] = "bcast"
    /\ pc' = [pc EXCEPT ![t] = IF Me(t).current_room = Empty THEN "cmd_loop" ELSE "bc_room"]
    /\ UNCHANGED <<clients, clients_mutex, cslot, uname, arg, roomp, ret, ncmd,
                   mainVars, roomVars, queueVars, sigVars, obsVars, stepVars, ghostVars>>

\* broadcast_to_room under rooms_mutex, then the success line to the sender and
\* the BROADCAST record
BcRoom(t) ==
    /\ Runnable(t) /\ pc[t] = "bc_room" /\ rooms_mutex = NoThread
    /\ sent' = SendTo(broadcast_to_room(sent, Me(t).current_room, Me(t).username),
                      Me(t).socket, "bcast_ok")
    /\ pc' = [pc EXCEPT ![t] = "cmd_loop"]
    /\ UNCHANGED <<clients, clients_mutex, cslot, uname, arg, roomp, ret, ncmd,
                   mainVars, roomVars, queueVars, sigVars, obsVars, stepVars, connst, logged>>

\* broadcast_to_room statement by statement.  The broadcast in hand is named by
\* its sender and the number of the command line that asked for it.
BcastId(t) == <<t, ncmd[t]>>

\* BcLock that does not wait for rooms_mutex
BcLockNoMutex(t) ==
    /\ Runnable(t) /\ pc[t] = "bc_room"
    /\ LET i == FirstOf({j \in RoomSlots : rooms[j].active /\ rooms[j].name = Me(t).current_room}) IN
       /\ broom' = [broom EXCEPT ![t] = i]
       /\ pc' = [pc EXCEPT ![t] = IF i = NoSlot THEN "bc_unlock" ELSE "bc_send"]
    /\ bcur' = [bcur EXCEPT ![t] = 1]
    /\ border' = Append(border, BcastId(t))
    /\ UNCHANGED <<clients, clients_mutex, cslot, uname, arg, roomp, ret, ncmd, rcv,
                   mainVars, roomVars, queueVars, sigVars, obsVars, lockVars, ghostVars>>

\* pthread_mutex_lock(&rooms_mutex); the outer loop: the first active room of
\* that name, if any
BcLock(t) ==
    /\ Runnable(t) /\ pc[t] = "bc_room" /\ rooms_mutex = NoThread
    /\ rooms_mutex' = t
    /\ LET i == FirstOf({j \in RoomSlots : rooms[j].active /\ rooms[j].name = Me(t).current_room}) IN
       /\ broom' = [broom EXCEPT ![t] = i]
       /\ pc' = [pc EXCEPT ![t] = IF i = NoSlot THEN "bc_unlock" ELSE "bc_send"]
    /\ bcur' = [bcur EXCEPT ![t] = 1]
    /\ border' = Append(border, BcastId(t))
    /\ UNCHANGED <<clients, clients_mutex, cslot, uname, arg, roomp, ret, ncmd, rooms, rcv,
                   mainVars, queueVars, sigVars, obsVars, lockVars, ghostVars>>

\* one turn of the inner loop: j < member_count, and members[j], if active and
\* not named as the sender, is sent the room line
BcSend(t) ==
    /\ Runnable(t) /\ pc[t] = "bc_send"
    /\ IF bcur[t] > Len(rooms[broom[t]].members)
       THEN /\ pc' = [pc EXCEPT ![t] = "bc_unlock"]
            /\ UNCHANGED <<bcur, sent, rcv>>
       ELSE LET m == clients[rooms[broom[t]].members[bcur[t]]] IN
            /\ bcur' = [bcur EXCEPT ![t] = @ + 1]
            /\ IF m.active /\ m.username # Me(t).username
               THEN /\ sent' = SendTo(sent, m.socket, "bcast")
                    /\ rcv' = IF m.socket \in Conns /\ connst[m.socket] = "open"
                              THEN [rcv EXCEPT ![m.socket] = Append(@, BcastId(t))]
                              ELSE rcv
               ELSE UNCHANGED <<sent, rcv>>
            /\ UNCHANGED pc
    /\ UNCHANGED <<clients, clients_mutex, cslot, uname, arg, roomp, ret, ncmd, broom, border,
                   mainVars, roomVars, queueVars, sigVars, obsVars, lockVars, connst, logged>>

\* pthread_mutex_unlock(&rooms_mutex); back in handle_broadcast the success line
\* to the sender and the BROADCAST record
BcUnlock(t) ==
    /\ Runnable(t) /\ pc[t] = "bc_unlock"
    /\ rooms_mutex' = NoThread
    /\ sent' = SendTo(sent, Me(t).socket, "bcast_ok")
    /\ broom' = [broom EXCEPT ![t] = NoSlot]
    /\ bcur' = [bcur EXCEPT ![t] = 0]
    /\ pc' = [pc EXCEPT ![t] = "cmd_loop"]
    /\ UNCHANGED <<clients, clients_mutex, cslot, uname, arg, roomp, ret, ncmd, rooms, border, rcv,
                   mainVars, queueVars, sigVars, obsVars, lockVars, connst, logged>>

FanOutSteps(t) == Bcast(t) \/ BcLock(t) \/ BcSend(t) \/ BcUnlock(t)

\* ---------------------------------------------------------------- handle_whisper
\* find_client_by_username(target) with no lock held; none: the not-found error;
\* else the whisper line on the target's socket, the success line to the sender
\* and the WHISPER record
Whisper(t) ==
    /\ Runnable(t) /\ pc[t] = "whisper"
    /\ LET r == find_client_by_username(arg[t].a) IN
       IF r = NoSlot
       THEN /\ sent' = SendTo(sent, Me(t).socket, "notfound")
            /\ UNCHANGED logged
       ELSE /\ sent' = SendTo(SendTo(sent, clients[r].socket, "whisper"),
                              Me(t).socket, "whisper_ok")
            /\ logged' = LogTo(logged, "WHISPER")
    /\ pc' = [pc EXCEPT ![t] = "cmd_loop"]
    /\ UNCHANGED <<clients, clients_mutex, cslot, uname, arg, roomp, ret, ncmd,
                   mainVars, roomVars, queueVars, sigVars, obsVars, stepVars, connst>>

\* ---------------------------------------------------------------- cleanup_client
\* if (!client->active) return; leave the current room if any
Cleanup(t) ==
    /\ Runnable(t) /\ pc[t] = "cleanup"
    /\ IF ~Me(t).active
       THEN pc' = [pc EXCEPT ![t] = "done"] /\ UNCHANGED ret
       ELSE IF Me(t).current_room # Empty
       THEN pc' = [pc EXCEPT ![t] = "leave"] /\ ret' = [ret EXCEPT ![t] = "cl_close"]
       ELSE pc' = [pc EXCEPT ![t] = "cl_close"] /\ UNCHANGED ret
    /\ UNCHANGED <<clients, clients_mutex, cslot, uname, arg, roomp, ncmd,
                   mainVars, roomVars, queueVars, sigVars, obsVars, stepVars, ghostVars>>

\* the DISCONNECT record if a username is set; close(client->socket); socket = -1
ClClose(t) ==
    /\ Runnable(t) /\ pc[t] = "cl_close"
    /\ logged' = IF Me(t).username # Empty THEN LogTo(logged, "DISCONNECT") ELSE logged
    /\ connst' = IF Me(t).socket \in Conns
                 THEN [connst EXCEPT ![Me(t).socket] = "closed"] ELSE connst
    /\ clients' = [clients EXCEPT ![Slot(t)].socket = NoSock]
    /\ pc' = [pc EXCEPT ![t] = "cl_active"]
    /\ UNCHANGED <<clients_mutex, cslot, uname, arg, roomp, ret, ncmd,
                   mainVars, roomVars, queueVars, sigVars, obsVars, stepVars, sent>>

\* client->active = 0
ClActive(t) ==
    /\ Runnable(t) /\ pc[t] = "cl_active"
    /\ clients' = [clients EXCEPT ![Slot(t)].active = FALSE]
    /\ pc' = [pc EXCEPT ![t] = "cl_name"]
    /\ UNCHANGED <<clients_mutex, cslot, uname, arg, roomp, ret, ncmd,
                   mainVars, roomVars, queueVars, sigVars, obsVars, stepVars, ghostVars>>

\* client->username[0] = '\0'
ClName(t) ==
    /\ Runnable(t) /\ pc[t] = "cl_name"
    /\ clients' = [clients EXCEPT ![Slot(t)].username = Empty]
    /\ pc' = [pc EXCEPT ![t] = "cl_room"]
    /\ UNCHANGED <<clients_mutex, cslot, uname, arg, roomp, ret, ncmd,
                   mainVars, roomVars, queueVars, sigVars, obsVars, stepVars, ghostVars>>

\* client->current_room[0] = '\0'; the thread returns
ClRoom(t) ==
    /\ Runnable(t) /\ pc[t] = "cl_room"
    /\ clients' = [clients EXCEPT ![Slot(t)].current_room = Empty]
    /\ pc' = [pc EXCEPT ![t] = "done"]
    /\ UNCHANGED <<clients_mutex, cslot, uname, arg, roomp, ret, ncmd,
                   mainVars, roomVars, queueVars, sigVars, obsVars, stepVars, ghostVars>>

\* ---------------------------------------------------------------- /sendfile
\* strlen >= 5 and the text from the last '.' is one of the four extensions
validate_filename(fn) == fn.len >= 5 /\ fn.ext \in {".txt", ".pdf", ".jpg", ".png"}

\* SfStart without the st_size test
SfStartNoSize(t) ==
    /\ Runnable(t) /\ pc[t] = "sf_start"
    /\ LET fn == FileOf(arg[t].f)
           target == find_client_by_username(arg[t].a) IN
       IF ~validate_filename(fn) \/ target = NoSlot
       THEN pc' = [pc EXCEPT ![t] = "cmd_loop"]
       ELSE pc' = [pc EXCEPT ![t] = "sf_try"]
    /\ UNCHANGED <<clients, clients_mutex, cslot, uname, arg, roomp, ret, ncmd,
                   mainVars, roomVars, queueVars, sigVars, obsVars, stepVars, ghostVars>>

\* handle_file_send up to the queue: extension, target online, size
SfStart(t) ==
    /\ Runnable(t) /\ pc[t] = "sf_start"
    /\ LET fn == FileOf(arg[t].f)
           target == find_client_by_username(arg[t].a) IN
       IF ~validate_filename(fn) THEN
            pc' = [pc EXCEPT ![t] = "cmd_loop"] /\ UNCHANGED <<logged, sent>>
       ELSE IF target = NoSlot THEN
            pc' = [pc EXCEPT ![t] = "cmd_loop"] /\ UNCHANGED <<logged, sent>>
       ELSE IF fn.stat /\ fn.size > MAX_FILE_SIZE THEN
            /\ pc' = [pc EXCEPT ![t] = "cmd_loop"]
            /\ sent' = SendTo(sent, Me(t).socket, "toobig")
            /\ logged' = LogTo(logged, "ERROR")
       ELSE pc' = [pc EXCEPT ![t] = "sf_try"] /\ UNCHANGED <<logged, sent>>
    /\ UNCHANGED <<clients, clients_mutex, cslot, uname, arg, roomp, ret, ncmd,
                   mainVars, roomVars, queueVars, sigVars, obsVars, stepVars, connst>>

\* sem_trywait(&upload_queue.slots): a permit, or the "Upload queue full" notice
SfTry(t) ==
    /\ Runnable(t) /\ pc[t] = "sf_try"
    /\ IF upq.slots > 0
       THEN /\ upq' = [upq EXCEPT !.slots = @ - 1]
            /\ immediate' = immediate + 1
            /\ pc' = [pc EXCEPT ![t] = "sf_enq"]
            /\ UNCHANGED <<sent, waited>>
       ELSE /\ sent' = SendTo(sent, Me(t).socket, "qfull")
            /\ waited' = [waited EXCEPT ![t] = released]
            /\ pc' = [pc EXCEPT ![t] = "sf_wait"]
            /\ UNCHANGED <<upq, immediate>>
    /\ UNCHANGED <<clients, clients_mutex, cslot, uname, arg, roomp, ret, ncmd,
                   mainVars, roomVars, xpc, xrec, committed, processed, released,
                   sigVars, obsVars, stepVars, connst, logged>>

\* SfWait that does not wait for a permit
SfWaitNoBlock(t) ==
    /\ Runnable(t) /\ pc[t] = "sf_wait"
    /\ pc' = [pc EXCEPT ![t] = "sf_enq"]
    /\ UNCHANGED <<clients, clients_mutex, cslot, uname, arg, roomp, ret, ncmd,
                   mainVars, roomVars, queueVars, sigVars, obsVars, stepVars, ghostVars>>

\* sem_wait(&upload_queue.slots)
SfWait(t) ==
    /\ Runnable(t) /\ pc[t] = "sf_wait"
    /\ upq.slots > 0
    /\ upq' = [upq EXCEPT !.slots = @ - 1]
    /\ pc' = [pc EXCEPT ![t] = "sf_enq"]
    /\ UNCHANGED <<clients, clients_mutex, cslot, uname, arg, roomp, ret, ncmd,
                   mainVars, roomVars, xpc, xrec, committed, processed, released,
                   immediate, waited, sigVars, obsVars, stepVars, ghostVars>>

\* Enqueue that forgets count++
EnqueueNoCount(q, rec) ==
    [q EXCEPT !.queue[q.rear] = rec,
              !.rear = (q.rear + 1) % MAX_UPLOAD_QUEUE]

\* under upload_queue.mutex: fill queue[rear], advance rear, count++
Enqueue(q, rec) ==
    [q EXCEPT !.queue[q.rear] = rec,
              !.rear = (q.rear + 1) % MAX_UPLOAD_QUEUE,
              !.count = q.count + 1]

SfEnq(t) ==
    /\ Runnable(t) /\ pc[t] = "sf_enq" /\ upq.mutex = NoThread
    /\ LET rec == [id |-> Len(committed) + 1, sender |-> Me(t).username,
                   receiver |-> arg[t].a] IN
       /\ upq' = Enqueue(upq, rec)
       /\ committed' = Append(committed, rec.id)
    /\ pc' = [pc EXCEPT ![t] = "sf_post"]
    /\ UNCHANGED <<clients, clients_mutex, cslot, uname, arg, roomp, ret, ncmd,
                   mainVars, roomVars, xpc, xrec, processed, released,
                   immediate, waited, sigVars, obsVars, stepVars, ghostVars>>

\* sem_post(&upload_queue.items); the reply and the FILE-QUEUE record
SfPost(t) ==
    /\ Runnable(t) /\ pc[t] = "sf_post"
    /\ upq' = [upq EXCEPT !.items = @ + 1]
    /\ waited' = [waited EXCEPT ![t] = -1]
    /\ pc' = [pc EXCEPT ![t] = "cmd_loop"]
    /\ UNCHANGED <<clients, clients_mutex, cslot, uname, arg, roomp, ret, ncmd,
                   mainVars, roomVars, xpc, xrec, committed, processed, released,
                   immediate, sigVars, obsVars, stepVars, ghostVars>>

\* ---------------------------------------------------------------- transfer worker
\* while (server_running)
XTop ==
    /\ Runnable(XferT) /\ xpc = "x_top"
    /\ xpc' = IF server_running THEN "x_wait" ELSE "x_done"
    /\ UNCHANGED <<sessVars, mainVars, roomVars, upq, xrec, committed, processed,
                   released, immediate, waited, sigVars, obsVars, stepVars, ghostVars>>

\* XWait that does not look at server_running after the wait
XWaitNoCheck ==
    /\ Runnable(XferT) /\ xpc = "x_wait"
    /\ upq.items > 0
    /\ upq' = [upq EXCEPT !.items = @ - 1]
    /\ xpc' = "x_deq"
    /\ UNCHANGED <<sessVars, mainVars, roomVars, xrec, committed, processed,
                   released, immediate, waited, sigVars, obsVars, stepVars, ghostVars>>

\* sem_wait(&upload_queue.items); if (!server_running) break
XWait ==
    /\ Runnable(XferT) /\ xpc = "x_wait"
    /\ upq.items > 0
    /\ upq' = [upq EXCEPT !.items = @ - 1]
    /\ xpc' = IF server_running THEN "x_deq" ELSE "x_done"
    /\ UNCHANGED <<sessVars, mainVars, roomVars, xrec, committed, processed,
                   released, immediate, waited, sigVars, obsVars, stepVars, ghostVars>>

\* Dequeue that forgets to advance front
DequeueNoAdvance(q) == [q EXCEPT !.count = q.count - 1]

\* under upload_queue.mutex: copy queue[front], advance front, count--
Dequeue(q) ==
    [q EXCEPT !.front = (q.front + 1) % MAX_UPLOAD_QUEUE,
              !.count = q.count - 1]

XDeq ==
    /\ Runnable(XferT) /\ xpc = "x_deq" /\ upq.mutex = NoThread
    /\ xrec' = upq.queue[upq.front]
    /\ upq' = Dequeue(upq)
    /\ processed' = Append(processed, upq.queue[upq.front].id)
    /\ xpc' = "x_deliver"
    /\ UNCHANGED <<sessVars, mainVars, roomVars, committed, released, immediate,
                   waited, sigVars, obsVars, stepVars, ghostVars>>

\* after the sleep: the receiver, if online, gets the [FILE] line; either way a
\* SEND FILE record is logged
XDeliver ==
    /\ Runnable(XferT) /\ xpc = "x_deliver"
    /\ LET r == find_client_by_username(xrec.receiver) IN
       /\ sent' = IF r # NoSlot THEN SendTo(sent, clients[r].socket, "file") ELSE sent
       /\ logged' = LogTo(logged, IF r # NoSlot THEN "SEND FILE ok" ELSE "SEND FILE failed")
    /\ xpc' = "x_post"
    /\ UNCHANGED <<sessVars, mainVars, roomVars, upq, xrec, committed, processed,
                   released, immediate, waited, sigVars, obsVars, stepVars, connst>>

\* XPost that forgets the sem_post
XPostNoRelease ==
    /\ Runnable(XferT) /\ xpc = "x_post"
    /\ released' = released + 1
    /\ xpc' = "x_top"
    /\ UNCHANGED <<sessVars, mainVars, roomVars, upq, xrec, committed, processed,
                   immediate, waited, sigVars, obsVars, stepVars, ghostVars>>

\* sem_post(&upload_queue.slots)
XPost ==
    /\ Runnable(XferT) /\ xpc = "x_post"
    /\ upq' = [upq EXCEPT !.slots = @ + 1]
    /\ released' = released + 1
    /\ xpc' = "x_top"
    /\ UNCHANGED <<sessVars, mainVars, roomVars, xrec, committed, processed,
                   immediate, waited, sigVars, obsVars, stepVars, ghostVars>>

Xfer == XTop \/ XWait \/ XDeq \/ XDeliver \/ XPost

\* ---------------------------------------------------------------- SIGINT
\* the threads of the process that can take the signal
Alive(t) ==
    \/ t = MainT
    \/ t = XferT /\ xpc # "x_done"
    \/ t \in Workers /\ pc[t] \notin {"unborn", "done"}

\* signal_handler starts on thread t: server_running = 0
SigInt(t) ==
    /\ ~exited /\ sigpc = "none" /\ Alive(t)
    /\ server_running' = FALSE
    /\ sigT' = t
    /\ sigpc' = "sig_lock"
    /\ sigactive' = {clients[i].socket : i \in {j \in Slots : clients[j].active}} \cap Conns
    /\ UNCHANGED <<exited, sigcount, sessVars, mainVars, roomVars, queueVars, ghostVars, reg,
                   stepVars>>

\* under clients_mutex: the goodbye line to every active client, counted
RECURSIVE NotifyAll(_, _)
NotifyAll(s, S) ==
    IF S = {} THEN s
    ELSE LET i == CHOOSE j \in S : TRUE IN
         NotifyAll(SendTo(s, clients[i].socket, "shutdown"), S \ {i})

SigNotify ==
    /\ ~exited /\ sigpc = "sig_lock" /\ clients_mutex = NoThread
    /\ LET act == {i \in Slots : clients[i].active} IN
       /\ sent' = NotifyAll(sent, act)
       /\ sigcount' = Cardinality(act)
    /\ sigpc' = "sig_exit"
    /\ UNCHANGED <<server_running, exited, sigT, sessVars, mainVars, roomVars,
                   queueVars, connst, logged, obsVars, stepVars>>

\* the SHUTDOWN record; close(server_socket); fclose(log_file); exit(0)
SigExit ==
    /\ ~exited /\ sigpc = "sig_exit"
    /\ logged' = LogTo(logged, "SHUTDOWN")
    /\ exited' = TRUE
    /\ sigpc' = "sig_done"
    /\ UNCHANGED <<server_running, sigT, sigcount, sessVars, mainVars, roomVars,
                   queueVars, sent, connst, obsVars, stepVars>>

\* ---------------------------------------------------------------- lock order
\* Every handler once more, reduced to what it does with the four mutexes and
\* with the log file, in program order, and to the send() calls it makes while
\* it holds a mutex; the semaphores, the registries and the send() calls made
\* with no mutex held are left out.  ops[t] is what thread t has left of the
\* handler it is in, holder[l] the thread inside mutex l.
Lk(l) == [k |-> "lock", l |-> l]
Ul(l) == [k |-> "unlock", l |-> l]
Snd == [k |-> "send", l |-> "-"]
Wr(part) == [k |-> "write", l |-> part]
Ex == [k |-> "exit", l |-> "-"]

\* log_message that writes without log_mutex
LogMessageOpsNoLock == <<Wr("timestamp"), Wr("message"), Wr("newline")>>

\* log_message: lock log_mutex; fprintf timestamp; vfprintf message; fprintf
\* newline, fflush; unlock
LogMessageOps ==
    <<Lk("log_mutex"), Wr("timestamp"), Wr("message"), Wr("newline"), Ul("log_mutex")>>

\* one turn of main's accept loop after accept(): the slot search and the init
\* under clients_mutex ("Server full" is sent after the unlock)
MainOps == {<<Lk("clients_mutex"), Ul("clients_mutex")>>}

\* one turn of the naming loop: an invalid name: nothing locked; a taken name:
\* the lookup under clients_mutex, unlock, REJECTED; a free name: lookup and
\* strcpy under clients_mutex, unlock, LOGIN
NamingOps ==
    {<<>>, <<Lk("clients_mutex"), Ul("clients_mutex")>> \o LogMessageOps}

\* handle_leave_room of a session in a room: the removal under rooms_mutex,
\* unlock, (the reply,) LEAVE
LeaveOps == <<Lk("rooms_mutex"), Ul("rooms_mutex")>> \o LogMessageOps

\* handle_join_room past the name check: leave first if in a room; then no slot:
\* nothing locked; a full room: the check under rooms_mutex, unlock; else the
\* append under rooms_mutex, unlock, (the reply,) JOIN
JoinOps ==
    LET after == {<<>>,
                  <<Lk("rooms_mutex"), Ul("rooms_mutex")>>,
                  <<Lk("rooms_mutex"), Ul("rooms_mutex")>> \o LogMessageOps}
    IN  after \cup {LeaveOps \o a : a \in after}

\* handle_broadcast in a room: broadcast_to_room sends to the members inside
\* rooms_mutex (to none when the sender is alone); then BROADCAST
BroadcastOps ==
    {<<Lk("rooms_mutex"), Ul("rooms_mutex")>> \o LogMessageOps,
     <<Lk("rooms_mutex"), Snd, Ul("rooms_mutex")>> \o LogMessageOps}

\* handle_whisper: the lookup takes no lock; not found: nothing more; else WHISPER
WhisperOps == {<<>>, LogMessageOps}

\* handle_file_send: a rejection (with the ERROR record when oversize); or the
\* enqueue under upload_queue.mutex, unlock, (the reply,) FILE-QUEUE
FileSendOps ==
    {<<>>,
     LogMessageOps,
     <<Lk("upload_queue.mutex"), Ul("upload_queue.mutex")>> \o LogMessageOps}

\* cleanup_client: leave the room if in one, DISCONNECT if named
CleanupOps == {<<>>, LeaveOps, LeaveOps \o LogMessageOps, LogMessageOps}

\* one turn of file_transfer_handler: the dequeue under upload_queue.mutex,
\* unlock, (the [FILE] line if the receiver is online,) SEND FILE
TransferOps ==
    {<<Lk("upload_queue.mutex"), Ul("upload_queue.mutex")>> \o LogMessageOps}

\* signal_handler: the goodbye lines under clients_mutex, unlock, SHUTDOWN, exit
SignalOps == <<Lk("clients_mutex"), Snd, Ul("clients_mutex")>> \o LogMessageOps \o <<Ex>>

\* what a thread may run next
HandlerOps(t) ==
    IF t = MainT THEN MainOps
    ELSE IF t = XferT THEN TransferOps
    ELSE NamingOps \cup {LeaveOps} \cup JoinOps \cup BroadcastOps \cup WhisperOps
         \cup FileSendOps \cup CleanupOps

\* the threads that run: main, the transfer worker, a worker per client slot
LockThreads == {MainT, XferT} \cup {t \in Workers : t <= MAX_CLIENTS}

\* thread t enters a handler: any of its own while server_running is set, and
\* after that a session worker still runs cleanup_client
LkBegin(t) ==
    /\ ~exited /\ ops[t] = <<>> /\ sigT # t
    /\ \E h \in HandlerOps(t) :
         /\ h # <<>>
         /\ server_running \/ (t \in Workers /\ h \in CleanupOps)
         /\ ops' = [ops EXCEPT ![t] = h]
    /\ UNCHANGED <<sessVars, mainVars, roomVars, queueVars, sigVars, obsVars, fanVars,
                   ghostVars, holder>>

\* pthread_mutex_lock returns once the mutex is free
LkAcquire(t) ==
    /\ ~exited /\ ops[t] # <<>> /\ Head(ops[t]).k = "lock"
    /\ holder[Head(ops[t]).l] = NoThread
    /\ holder' = [holder EXCEPT ![Head(ops[t]).l] = t]
    /\ ops' = [ops EXCEPT ![t] = Tail(@)]
    /\ UNCHANGED <<sessVars, mainVars, roomVars, queueVars, sigVars, obsVars, fanVars, ghostVars>>

LkRelease(t) ==
    /\ ~exited /\ ops[t] # <<>> /\ Head(ops[t]).k = "unlock"
    /\ holder' = [holder EXCEPT ![Head(ops[t]).l] = NoThread]
    /\ ops' = [ops EXCEPT ![t] = Tail(@)]
    /\ UNCHANGED <<sessVars, mainVars, roomVars, queueVars, sigVars, obsVars, fanVars, ghostVars>>

\* a send() under a mutex, or one of the three writes of a log record
LkOutput(t) ==
    /\ ~exited /\ ops[t] # <<>> /\ Head(ops[t]).k \in {"send", "write"}
    /\ ops' = [ops EXCEPT ![t] = Tail(@)]
    /\ UNCHANGED <<sessVars, mainVars, roomVars, queueVars, sigVars, obsVars, fanVars,
                   ghostVars, holder>>

\* SIGINT is delivered to thread t wherever it stands: signal_handler runs on
\* top of what t was doing
LkSignal(t) ==
    /\ ~exited /\ sigpc = "none"
    /\ sigpc' = "sig_lock"
    /\ sigT' = t
    /\ server_running' = FALSE
    /\ ops' = [ops EXCEPT ![t] = SignalOps \o @]
    /\ UNCHANGED <<exited, sigcount, sessVars, mainVars, roomVars, queueVars, obsVars, fanVars,
                   ghostVars, holder>>

\* exit(0)
LkExit(t) ==
    /\ ~exited /\ ops[t] # <<>> /\ Head(ops[t]).k = "exit"
    /\ exited' = TRUE
    /\ sigpc' = "sig_done"
    /\ ops' = [ops EXCEPT ![t] = Tail(@)]
    /\ UNCHANGED <<server_running, sigT, sigcount, sessVars, mainVars, roomVars, queueVars,
                   obsVars, fanVars, ghostVars, holder>>

LockSteps(t) ==
    LkBegin(t) \/ LkAcquire(t) \/ LkRelease(t) \/ LkOutput(t) \/ LkSignal(t) \/ LkExit(t)

\* ---------------------------------------------------------------- specifications
Naming(t, inputs) ==
    NameLoop(t) \/ NameRecvClosed(t) \/ NameRecv(t, inputs) \/ NameLock(t) \/ PostLoop(t)

Teardown(t) == Cleanup(t) \/ ClClose(t) \/ ClActive(t) \/ ClName(t) \/ ClRoom(t)

RoomOps(t) ==
    \/ Join(t) \/ Foc1(t) \/ Foc2(t) \/ FocAct(t) \/ FocCnt(t) \/ JoinLock(t)
    \/ Leave(t) \/ LeaveClear(t)

Broadcast(t) == Bcast(t) \/ BcRoom(t)

SendFile(t) == SfStart(t) \/ SfTry(t) \/ SfWait(t) \/ SfEnq(t) \/ SfPost(t)

Signal == (\E t \in Threads : SigInt(t)) \/ SigNotify \/ SigExit

\* the command lines the peers send
RoomCmds == JoinCmds \cup {LeaveCmd, ExitCmd}
SendCmds ==
    {[op |-> "sendfile", a |-> <<"a">>, f |-> "small"],
     [op |-> "sendfile", a |-> <<"0">>, f |-> "small"],
     [op |-> "sendfile", a |-> <<"a">>, f |-> "big"],
     [op |-> "sendfile", a |-> <<"0">>, f |-> "big"],
     [op |-> "sendfile", a |-> <<"a">>, f |-> "exe"]}
AllCmds == RoomCmds \cup SendCmds \cup {BcastCmd} \cup WhisperCmds

\* the whole server from main()
Next ==
    \/ Main
    \/ \E t \in Workers :
         \/ Naming(t, NameInputs) \/ CmdLoop(t) \/ CmdRecvClosed(t) \/ CmdRecv(t, AllCmds)
         \/ RoomOps(t) \/ Broadcast(t) \/ Whisper(t) \/ SendFile(t) \/ Teardown(t)
    \/ Xfer
    \/ Signal

Spec == Init /\ [][Next]_vars

\* connections come and go: accept, naming, /exit or a lost peer, teardown
NextSess ==
    \/ Main
    \/ \E t \in Workers :
         \/ Naming(t, GoodNameInputs) \/ CmdLoop(t) \/ CmdRecvClosed(t) \/ CmdRecv(t, {ExitCmd})
         \/ Teardown(t)

SpecSess == Init /\ [][NextSess]_vars

\* every slot holds a registered session that waits for its next command
Ready == {t \in Workers : t <= MAX_CLIENTS}

\* what the ready states share: no lock held, nothing queued, nothing sent yet
ReadyRest ==
    /\ clients_mutex = NoThread
    /\ rooms_mutex = NoThread
    /\ server_running = TRUE
    /\ exited = FALSE
    /\ mpc = "accept"
    /\ mconn = NoSock
    /\ mslot = NoSlot
    /\ naccepted = MAX_CLIENTS
    /\ pc = [t \in Workers |-> IF t \in Ready THEN "cmd_loop" ELSE "unborn"]
    /\ cslot = [t \in Workers |-> IF t \in Ready THEN t - 1 ELSE NoSlot]
    /\ uname = [t \in Workers |-> IF t \in Ready THEN <<NameList[t]>> ELSE Empty]
    /\ arg = [t \in Workers |-> NoCmd]
    /\ roomp = [t \in Workers |-> NoSlot]
    /\ ret = [t \in Workers |-> "none"]
    /\ ncmd = [t \in Workers |-> 0]
    /\ upq = EmptyQueue
    /\ xpc = "x_top"
    /\ xrec = NoRec
    /\ sigpc = "none"
    /\ sigT = NoThread
    /\ sigcount = 0
    /\ sent = [c \in Conns |-> [k \in Kinds |-> 0]]
    /\ connst = [c \in Conns |-> IF c \in Ready THEN "open" ELSE "none"]
    /\ logged = [g \in LogTags |-> 0]
    /\ committed = <<>>
    /\ processed = <<>>
    /\ released = 0
    /\ immediate = 0
    /\ waited = [t \in Workers |-> -1]
    /\ sigactive = {}
    /\ reg = [t \in Workers |-> t \in Ready]
    /\ broom = [t \in Workers |-> NoSlot]
    /\ bcur = [t \in Workers |-> 0]
    /\ border = <<>>
    /\ rcv = [c \in Conns |-> <<>>]
    /\ holder = [l \in Locks |-> NoThread]
    /\ ops = [t \in Threads |-> <<>>]

InitReady ==
    /\ clients = [i \in Slots |-> [active |-> TRUE, username |-> <<NameList[i + 1]>>,
                                   current_room |-> Empty, socket |-> i + 1]]
    /\ rooms = [i \in RoomSlots |-> EmptyRoom]
    /\ ReadyRest

\* every slot holds a registered session that has joined room "x"
InitInRoom ==
    /\ clients = [i \in Slots |-> [active |-> TRUE, username |-> <<NameList[i + 1]>>,
                                   current_room |-> <<"x">>, socket |-> i + 1]]
    /\ rooms = [i \in RoomSlots |->
                  IF i = 0 THEN [name |-> <<"x">>, members |-> [k \in 1 .. MAX_CLIENTS |-> k - 1],
                                 active |-> TRUE]
                  ELSE EmptyRoom]
    /\ ReadyRest

\* registered sessions join and leave rooms and go away
NextRoom ==
    \E t \in Workers :
        \/ CmdLoop(t) \/ CmdRecv(t, RoomCmds) \/ RoomOps(t) \/ Teardown(t)

SpecRoom == InitReady /\ [][NextRoom]_vars

\* registered sessions send files; the transfer worker delivers; SIGINT may come
NextQueueLive ==
    \/ \E t \in Workers : CmdLoop(t) \/ CmdRecv(t, SendCmds) \/ SendFile(t)
    \/ Xfer

NextQueue == NextQueueLive \/ Signal

SpecQueue == InitReady /\ [][NextQueue]_vars

\* registered sessions join, leave and broadcast
ChatCmds == JoinCmds \cup {LeaveCmd, BcastCmd}

NextChat ==
    \E t \in Workers :
        \/ CmdLoop(t) \/ CmdRecv(t, ChatCmds) \/ RoomOps(t) \/ Broadcast(t)

SpecChat == InitReady /\ [][NextChat]_vars

\* registered sessions go away (/exit or a lost peer) while SIGINT comes
NextShut ==
    \/ \E t \in Workers : CmdLoop(t) \/ CmdRecvClosed(t) \/ CmdRecv(t, {ExitCmd}) \/ Teardown(t)
    \/ Signal

SpecShut == InitReady /\ [][NextShut]_vars

\* sessions that share room "x" broadcast, leave and join, the fan-out of a
\* broadcast taken member by member
NextFanOut ==
    \E t \in Workers :
        \/ CmdLoop(t) \/ CmdRecv(t, ChatCmds) \/ RoomOps(t) \/ FanOutSteps(t)

SpecFanOut == InitInRoom /\ [][NextFanOut]_vars

\* the threads run their handlers, seen as lock, send and log steps; SIGINT may come
NextLock == \E t \in LockThreads : LockSteps(t)

SpecLock == InitReady /\ [][NextLock]_vars

\* registered sessions send a file that is there and one that cannot be
\* stat'ed; the transfer worker delivers
StatCmds ==
    {[op |-> "sendfile", a |-> <<"a">>, f |-> "small"],
     [op |-> "sendfile", a |-> <<"a">>, f |-> "gone"]}

NextStat ==
    \/ \E t \in Workers : CmdLoop(t) \/ CmdRecv(t, StatCmds) \/ SendFile(t)
    \/ Xfer

SpecStat == InitReady /\ [][NextStat]_vars

\* registered sessions send files to user a and leave with /exit; the transfer
\* worker delivers
GoneCmds == {[op |-> "sendfile", a |-> <<"a">>, f |-> "small"], ExitCmd}

NextGone ==
    \/ \E t \in Workers : CmdLoop(t) \/ CmdRecv(t, GoneCmds) \/ SendFile(t) \/ Teardown(t)
    \/ Xfer

SpecGone == InitReady /\ [][NextGone]_vars

\* sessions that share room "x" ask to join a room of an invalid name, or leave
NextBadJoin ==
    \E t \in Workers :
        \/ CmdLoop(t) \/ CmdRecv(t, {BadJoinCmd, LeaveCmd})
        \/ Join(t) \/ Leave(t) \/ LeaveClear(t)

SpecBadJoin == InitInRoom /\ [][NextBadJoin]_vars

\* the peers send every line as the client program does: the text in one
\* segment, its LF in the next; so a connection's segments are text and LF in turn
SplitNameInputs(t) == IF ncmd[t] % 2 = 0 THEN {<<"a">>, <<"b">>, <<"!">>} ELSE {<<LF>>}
SplitCmds(t) == IF ncmd[t] % 2 = 0 THEN {LeaveCmd} ELSE {EmptyLineCmd}

NextSplit ==
    \/ Main
    \/ \E t \in Workers :
         Naming(t, SplitNameInputs(t)) \/ CmdLoop(t) \/ CmdRecv(t, SplitCmds(t))

SpecSplit == Init /\ [][NextSplit]_vars

\* registered sessions whisper to each other and go away
NextWhisper ==
    \E t \in Workers :
        \/ CmdLoop(t) \/ CmdRecvClosed(t) \/ CmdRecv(t, WhisperCmds \cup {ExitCmd})
        \/ Whisper(t) \/ Teardown(t)

SpecWhisper == InitReady /\ [][NextWhisper]_vars

\* ---------------------------------------------------------------- C1
\* C1: in every reachable state no two active sessions hold the same non-empty
\* username.
C1_UniqueUsernames ==
    \A i \in Slots : \A j \in Slots :
        (i # j /\ clients[i].active /\ clients[j].active /\ clients[i].username # Empty)
            => clients[i].username # clients[j].username

\* ---------------------------------------------------------------- C2
\* C2: in every reachable state at most one active Room carries a given name.
C2_OneRoomPerName ==
    \A i \in RoomSlots : \A j \in RoomSlots :
        (i # j /\ rooms[i].active /\ rooms[j].active) => rooms[i].name # rooms[j].name

\* ---------------------------------------------------------------- C3
\* the rooms whose member list holds session s
RoomsOf(s) == {i \in RoomSlots : \E k \in 1 .. Len(rooms[i].members) : rooms[i].members[k] = s}

\* C3: each session is in the member list of at most one Room, and that Room's
\* name is the session's current_room.
C3_MembershipDisjoint ==
    \A s \in Slots :
        /\ Cardinality(RoomsOf(s)) <= 1
        /\ \A i \in RoomsOf(s) : rooms[i].name = clients[s].current_room

\* ---------------------------------------------------------------- C4
\* C4: with rooms_mutex free (what another thread can see), a Room is active
\* exactly when it has at least one member.
C4_ActiveIffMember ==
    rooms_mutex = NoThread =>
        \A i \in RoomSlots : rooms[i].active <=> (Len(rooms[i].members) >= 1)

\* ---------------------------------------------------------------- C5
\* the session in slot s is between the unlock of handle_leave_room and the
\* clearing of its current_room
Leaving(s) == \E t \in Workers : cslot[t] = s /\ pc[t] = "leave_clear"

\* C5: every session whose current_room is non-empty (and that is not in the
\* middle of leaving it) is a member of exactly one active Room, the one that
\* current_room names.
C5_CurrentRoomIsActiveRoom ==
    \A s \in Slots :
        (clients[s].active /\ clients[s].current_room # Empty /\ ~Leaving(s))
            => /\ Cardinality({i \in RoomsOf(s) : rooms[i].active}) = 1
               /\ \A i \in RoomsOf(s) : rooms[i].active => rooms[i].name = clients[s].current_room

\* ---------------------------------------------------------------- C6
\* no /sendfile holds a slots permit it has not yet turned into an items permit,
\* and the transfer worker holds no items permit it has not yet turned back
\* into a slots permit
AtRest ==
    /\ \A t \in Workers : pc[t] \notin {"sf_enq", "sf_post"}
    /\ xpc \notin {"x_deq", "x_deliver", "x_post"}

Balanced ==
    /\ upq.slots + upq.items = MAX_UPLOAD_QUEUE
    /\ upq.count = upq.items

Pending == [k \in 1 .. upq.count |-> upq.queue[(upq.front + k - 1) % MAX_UPLOAD_QUEUE].id]

\* C8: the transfer worker dequeues the records in the order their enqueues
\* committed, each once: what it has dequeued so far, followed by what the queue
\* holds from front to rear, is exactly the sequence of commits.
C8_FifoOrder ==
    /\ upq.count \in 0 .. MAX_UPLOAD_QUEUE
    /\ processed \o Pending = committed
    /\ \A k \in 1 .. Len(committed) : committed[k] = k

C8_Witness == Len(processed) >= MAX_UPLOAD_QUEUE + 1 /\ upq.count >= 1

\* ---------------------------------------------------------------- C9
\* a /sendfile that got the notice holds no permit before the transfer worker
\* has posted slots again
WaitsForRelease ==
    \A t \in Workers :
        /\ pc[t] = "sf_wait" => (waited[t] >= 0 /\ sent[t]["qfull"] >= 1)
        /\ (pc[t] \in {"sf_enq", "sf_post"} /\ waited[t] >= 0) => released > waited[t]

\* before the transfer worker has released anything, at most capacity-many
\* /sendfile calls got a permit at once, and a notice means all of them were taken
FirstWave ==
    released = 0 =>
        /\ immediate <= MAX_UPLOAD_QUEUE
        /\ (\E t \in Workers : waited[t] >= 0) => immediate = MAX_UPLOAD_QUEUE

\* the sem_trywait step of a /sendfile: a free permit is taken without any
\* notice; with none free the notice is sent and the call waits
TryStep ==
    \A t \in Workers :
        (pc[t] = "sf_try" /\ pc'[t] # "sf_try") =>
            IF upq.slots > 0
            THEN pc'[t] = "sf_enq" /\ sent' = sent /\ upq'.slots = upq.slots - 1
            ELSE /\ pc'[t] = "sf_wait" /\ upq' = upq /\ committed' = committed
                 /\ sent'[t]["qfull"] = sent[t]["qfull"] + 1

\* C9: a validated /sendfile enqueues at once when a slots permit is free; with
\* none free it first sends the queue-full notice and commits only after the
\* transfer worker released a slot; so of capacity + 1 producers exactly
\* capacity-many enqueue at once and the next one waits.
C9_Backpressure == [](WaitsForRelease /\ FirstWave) /\ [][TryStep]_vars

C9_Witness ==
    \E t \in Workers : pc[t] = "sf_post" /\ waited[t] >= 0 /\ immediate = MAX_UPLOAD_QUEUE

\* ---------------------------------------------------------------- C7
\* connections that hold a session: admitted by the acceptor and not yet marked
\* inactive by cleanup_client
Sessions ==
    {c \in Conns : pc[c] \notin {"unborn", "cl_name", "cl_room", "done"}}
        \cup (IF mpc \in {"init_room", "init_name"} THEN {mconn} ELSE {})

\* the sessions never outnumber the slots; a connection that got "Server full"
\* got it once, is closed and has no worker
CapInv ==
    /\ Cardinality(Sessions) <= MAX_CLIENTS
    /\ Cardinality({i \in Slots : clients[i].active}) <= MAX_CLIENTS
    /\ \A c \in Conns :
         /\ sent[c]["full"] <= 1
         /\ sent[c]["full"] = 1 => (connst[c] = "closed" /\ pc[c] = "unborn")

\* the acceptor's step for a connection that finds every slot active
FullStep ==
    (mpc = "scan" /\ mpc' # "scan" /\ \A i \in Slots : clients[i].active) =>
        /\ sent'[mconn]["full"] = sent[mconn]["full"] + 1
        /\ connst'[mconn] = "closed"
        /\ clients' = clients
        /\ pc' = pc
        /\ mpc' = "accept"

FairQueue ==
    /\ WF_vars(Xfer)
    /\ \A t \in Workers :
         /\ WF_vars(SfStart(t) \/ SfTry(t) \/ SfEnq(t) \/ SfPost(t))
         /\ SF_vars(SfWait(t))

FairSpecQueue == InitReady /\ [][NextQueueLive]_vars /\ FairQueue

\* connections are accepted and lost while SIGINT may come; every thread that
\* can run keeps running, and so does the signal handler
NextAccept ==
    \/ Main
    \/ \E t \in Workers : NameLoop(t) \/ NameRecvClosed(t) \/ PostLoop(t) \/ Teardown(t)
    \/ Signal

FairAccept ==
    /\ WF_vars(Main)
    /\ \A t \in Workers : WF_vars(NameLoop(t) \/ NameRecvClosed(t) \/ PostLoop(t) \/ Teardown(t))
    /\ WF_vars(SigNotify)
    /\ WF_vars(SigExit)

FairSpecAccept == Init /\ [][NextAccept]_vars /\ FairAccept

\* the most transfers one run can commit
MaxIds == MAX_CLIENTS * MaxCmds

\* C10: without shutdown and under fair scheduling, every producer blocked on
\* the full queue eventually enqueues, and every enqueued transfer is eventually
\* taken and finished by the transfer worker.
C10_AllServed ==
    /\ \A t \in Workers : (pc[t] = "sf_wait") ~> (pc[t] = "sf_post")
    /\ \A n \in 1 .. MaxIds : (Len(committed) >= n) ~> (Len(processed) >= n /\ released >= n)

C10_Witness ==
    /\ \E t \in Workers : pc[t] = "sf_wait"
    /\ upq.items = MAX_UPLOAD_QUEUE

\* ---------------------------------------------------------------- C11
\* the username check of a session whose reply is the name of another active
\* session: the error line, a REJECTED record, no slot written, back to the top
\* of the naming loop
TakenStep ==
    \A t \in Workers :
        (/\ pc[t] = "name_lock" /\ pc'[t] # "name_lock"
         /\ \E i \in Slots \ {cslot[t]} : clients[i].active /\ clients[i].username = uname[t])
            => /\ sent'[t]["taken"] = sent[t]["taken"] + 1
               /\ logged'["REJECTED"] = logged["REJECTED"] + 1
               /\ clients' = clients
               /\ reg'[t] = reg[t]
               /\ pc'[t] = "name_loop"

\* from the top of the naming loop a running server prompts the session again
RePrompt ==
    \A t \in Workers :
        (pc[t] = "name_loop" /\ pc'[t] # "name_loop" /\ server_running /\ clients[cslot[t]].active)
            => /\ pc'[t] = "name_recv"
               /\ sent'[t]["prompt"] = sent[t]["prompt"] + 1

\* C11: a session in Naming that replies with a username held by another active
\* session gets the "Username already taken" error, a REJECTED record is
\* logged, the registry is unchanged, and the session stays in Naming and is
\* prompted again.
C11_TakenRejected == [][TakenStep /\ RePrompt]_vars

C11_Witness ==
    \E t \in Workers :
        /\ sent[t]["taken"] = 1 /\ sent[t]["prompt"] = 2 /\ pc[t] = "name_recv"
        /\ logged["REJECTED"] >= 1 /\ ~reg[t]

\* ---------------------------------------------------------------- C12
\* the sessions that share the member list of an active room with session s
OtherMembers(s) ==
    {m \in Slots \ {s} : \E i \in RoomsOf(s) : rooms[i].active /\ i \in RoomsOf(m)}

\* the fan-out step of a /broadcast by the session of worker t
BcastBy(t) == pc[t] = "bc_room" /\ pc'[t] # "bc_room"

\* C12: a /broadcast by a session in a room delivers exactly one room-tagged
\* line to every other member of that room and none to the sender, who gets
\* only the "Message broadcasted" line.
C12_BroadcastToOthers ==
    [][\A t \in Workers :
          BcastBy(t) =>
              /\ \A m \in OtherMembers(cslot[t]) :
                     /\ clients[m].socket \in Conns
                     /\ sent'[clients[m].socket]["bcast"] = sent[clients[m].socket]["bcast"] + 1
              /\ sent'[t]["bcast"] = sent[t]["bcast"]
              /\ sent'[t]["bcast_ok"] = sent[t]["bcast_ok"] + 1]_vars

\* ---------------------------------------------------------------- C13
\* C13: a broadcast reaches only sessions that are members of the sender's
\* current room at fan-out time: whoever gets a line of the fan-out is another
\* session, is in the member list of an active room, and has the sender's
\* current_room as its own.
C13_BroadcastOnlyToRoom ==
    [][\A t \in Workers :
          BcastBy(t) =>
              \A c \in Conns :
                  sent'[c]["bcast"] > sent[c]["bcast"] =>
                      \E m \in Slots \ {cslot[t]} :
                          /\ clients[m].socket = c
                          /\ clients[m].current_room = clients[cslot[t]].current_room
                          /\ \E i \in RoomsOf(m) : rooms[i].active]_vars

\* ---------------------------------------------------------------- C14
\* the validation step of a /sendfile by the session of worker t
SendFileBy(t) == pc[t] = "sf_start" /\ pc'[t] # "sf_start"

\* the file the command names is larger than 3 MiB
Oversize(t) == FileOf(arg[t].f).stat /\ FileOf(arg[t].f).size > MAX_FILE_SIZE

\* the size error to the sender, an ERROR record, nothing enqueued
SizeRejected(t) ==
    /\ sent'[t]["toobig"] = sent[t]["toobig"] + 1
    /\ logged'["ERROR"] = logged["ERROR"] + 1
    /\ upq' = upq /\ committed' = committed
    /\ pc'[t] = "cmd_loop"

Notified == {c \in Conns : sent[c]["shutdown"] >= 1}

\* C15: once the SIGINT handler has run, every session that was active when
\* SIGINT came has got exactly one "Server shutting down" line, nobody got two,
\* and exactly one SHUTDOWN record is logged whose count is the number of
\* sessions notified.
C15_ShutdownNotifiesAll ==
    exited =>
        /\ \A c \in sigactive : sent[c]["shutdown"] = 1
        /\ \A c \in Conns : sent[c]["shutdown"] <= 1
        /\ logged["SHUTDOWN"] = 1
        /\ sigcount = Cardinality(Notified)

\* ---------------------------------------------------------------- C16
\* the rooms whose member list holds session s after the step
RoomsOfNext(s) ==
    {i \in RoomSlots : \E k \in 1 .. Len(rooms'[i].members) : rooms'[i].members[k] = s}

\* the critical section of a /leave command by a session that joined a room
LeaveBy(t) ==
    /\ pc[t] = "leave" /\ ret[t] = "cmd_loop" /\ clients[cslot[t]].current_room # Empty
    /\ pc'[t] = "leave_clear"

\* C16: /join X followed by /leave takes the session out of the member list it
\* was put in, deactivates that room if the session was its only member, and
\* returns current_room to empty.
C16_JoinLeave ==
    [][\A t \in Workers :
          /\ LeaveBy(t) =>
                /\ RoomsOfNext(cslot[t]) = {}
                /\ \A i \in RoomsOf(cslot[t]) :
                       rooms[i].members = <<cslot[t]>> => ~rooms'[i].active
          /\ (pc[t] = "leave_clear" /\ pc'[t] # "leave_clear")
                => clients'[cslot[t]].current_room = Empty]_vars

\* ---------------------------------------------------------------- C17
\* C17: a /leave by a session that is in no room is answered with the
\* "You are not in any room" error and changes no session, no room and no
\* queue, each time it is sent.
C17_LeaveOutsideRoom ==
    [][\A t \in Workers :
          (/\ pc[t] = "leave" /\ pc'[t] # "leave" /\ ret[t] = "cmd_loop"
           /\ clients[cslot[t]].current_room = Empty)
              => /\ sent'[t]["noroom"] = sent[t]["noroom"] + 1
                 /\ clients' = clients
                 /\ rooms' = rooms
                 /\ upq' = upq
                 /\ pc'[t] = "cmd_loop"]_vars

C17_Witness ==
    \E t \in Workers :
        /\ sent[t]["noroom"] = 2 /\ pc[t] = "cmd_loop"
        /\ \E i \in RoomSlots : rooms[i].active /\ rooms[i].members # <<>>

\* ---------------------------------------------------------------- C18
\* the critical section of a /join that succeeds, by a session that was in a
\* room when the command came (handle_join_room left that room first)
SwitchBy(t) ==
    /\ pc[t] = "join_lock" /\ pc'[t] # "join_lock" /\ ret[t] = "foc1"
    /\ Len(rooms[roomp[t]].members) < MAX_CLIENTS

\* C18: after /join X and a successful /join Y the session's current_room is
\* Y, it is in the member list of an active room named Y, and in the member
\* list of no other room.
C18_JoinSwitches ==
    [][\A t \in Workers :
          SwitchBy(t) =>
              /\ clients'[cslot[t]].current_room = arg[t].a
              /\ RoomsOfNext(cslot[t]) # {}
              /\ \A i \in RoomsOfNext(cslot[t]) :
                     rooms'[i].active /\ rooms'[i].name = arg[t].a]_vars

\* ---------------------------------------------------------------- C19
\* the workers whose cleanup_client has logged and closed
Closed == {t \in Workers : pc[t] \in {"cl_active", "cl_name", "cl_room", "done"}}

\* C19: cleanup runs once for every session that terminates (one DISCONNECT
\* record and one close per registered session), and when its worker has
\* returned the session is in no member list, its username is not in the user
\* registry and its slot is inactive.
C19_CleanupOnce ==
    /\ logged["DISCONNECT"] = Cardinality(Closed)
    /\ \A t \in Workers :
          pc[t] = "done" =>
              /\ connst[t] = "closed"
              /\ ~clients[cslot[t]].active
              /\ clients[cslot[t]].username = Empty
              /\ find_client_by_username(uname[t]) = NoSlot
              /\ RoomsOf(cslot[t]) = {}

\* ---------------------------------------------------------------- C20
\* the step of cleanup_client that logs and closes, by worker t
CloseBy(t) == pc[t] = "cl_close" /\ pc'[t] # "cl_close"

\* a session that has not registered a name has none in the user registry
NamingUnnamed ==
    \A t \in Workers :
        (pc[t] \in {"name_loop", "name_recv", "name_lock"} /\ ~reg[t])
            => clients[cslot[t]].username = Empty

\* C20: the cleanup of a session that registered a username logs exactly one
\* DISCONNECT record, the cleanup of a session that ends in Naming logs none,
\* and a session in Naming has no name in the user registry.
C20_DisconnectLogged ==
    /\ []NamingUnnamed
    /\ [][\A t \in Workers :
            CloseBy(t) =>
                logged'["DISCONNECT"] = logged["DISCONNECT"] + (IF reg[t] THEN 1 ELSE 0)]_vars

\* ---------------------------------------------------------------- C21
\* C21: a session that another thread can still look up in the user registry
\* (its slot is active and holds its username) has an open stream: teardown
\* takes the session out of the registry before it closes the stream.
C21_RemovedBeforeClose ==
    \A i \in Slots :
        (clients[i].active /\ clients[i].username # Empty)
            => (clients[i].socket \in Conns /\ connst[clients[i].socket] = "open")

\* ---------------------------------------------------------------- C23
\* the worker of the session that holds slot i now: the one created last for it
OwnerOf(i) ==
    LET ts == {t \in Workers : cslot[t] = i} IN
    IF ts = {} THEN NoThread ELSE CHOOSE t \in ts : \A u \in ts : u <= t

\* slot i holds a session the acceptor has initialised and whose worker has not
\* returned, and the acceptor is not initialising the slot again
Initialised(i) ==
    /\ OwnerOf(i) # NoThread
    /\ pc[OwnerOf(i)] \notin {"unborn", "done"}
    /\ ~(mslot = i /\ mpc \in {"init_room", "init_name"})

\* C23: once the acceptor has initialised a session, a step that changes the
\* username or the current_room of its slot is a step of that session's own
\* worker.
C23_OwnerWritesOnly ==
    [][\A i \in Slots :
          (/\ Initialised(i)
           /\ \/ clients'[i].username # clients[i].username
              \/ clients'[i].current_room # clients[i].current_room)
              => pc'[OwnerOf(i)] # pc[OwnerOf(i)]]_vars

\* ---------------------------------------------------------------- C25
\* the [FILE] lines delivered so far, per connection
FileLines == [c \in Conns |-> sent[c]["file"]]

\* the transfer worker is at a point where it looks at server_running next: the
\* loop head, or the sem_wait whose return is followed by the check
AtFlagCheck == xpc \in {"x_top", "x_wait"}

\* C25 as stated: once server_running is false no further [FILE] line is sent
\* and no further record is taken from the queue.
C25_NoDeliveryAfterFlag ==
    [][~server_running => (FileLines' = FileLines /\ processed' = processed)]_vars

\* C25 amended: a transfer worker that looks at server_running once it is false
\* (at the loop head or on return from sem_wait) exits there, takes no record
\* and sends no [FILE] line from then on, whatever the queue holds; only the one
\* transfer that was already past the check when the flag fell is completed.
C25_ExitAtNextCheck ==
    [][(~server_running /\ (AtFlagCheck \/ xpc = "x_done")) =>
          /\ xpc' \in {xpc, "x_done"}
          /\ FileLines' = FileLines
          /\ processed' = processed
          /\ logged'["SEND FILE ok"] = logged["SEND FILE ok"]
          /\ logged'["SEND FILE failed"] = logged["SEND FILE failed"]]_vars

\* the worker has left its loop on the flag while a record is still queued
C25_Witness == ~server_running /\ ~exited /\ xpc = "x_done" /\ upq.count > 0 /\ upq.items > 0

\* ---------------------------------------------------------------- C28
NamingPcs == {"name_loop", "name_recv", "name_lock", "post_loop"}
TerminatedPcs == {"cleanup", "cl_close", "cl_active", "cl_name", "cl_room", "done"}

\* 0 not started, 1 Naming, 2 Active (the command loop and every command
\* handler), 3 Terminated (cleanup_client and after)
Phase(p) ==
    CASE p = "unborn" -> 0
      [] p \in NamingPcs -> 1
      [] p \in TerminatedPcs -> 3
      [] OTHER -> 2

\* C28: the phase of a session never goes back (Naming, then Active, then
\* Terminated); a session in Naming has dispatched no command and an input it
\* receives there only becomes a username attempt; it enters Active only with
\* its username committed under clients_mutex; a session in teardown takes no
\* further input and a finished one does nothing.
C28_Lifecycle ==
    [][\A t \in Workers :
          /\ Phase(pc'[t]) >= Phase(pc[t])
          /\ (Phase(pc[t]) = 0 /\ pc'[t] # pc[t]) => pc'[t] = "name_loop"
          /\ Phase(pc[t]) <= 1 => (arg[t] = NoCmd /\ arg'[t] = NoCmd)
          /\ (pc[t] = "name_recv" /\ pc'[t] # pc[t])
                 => pc'[t] \in {"name_lock", "name_loop", "cleanup"}
          /\ Phase(pc'[t]) = 2 => reg'[t]
          /\ Phase(pc[t]) = 3 => (arg'[t] = arg[t] /\ ncmd'[t] = ncmd[t] /\ uname'[t] = uname[t])
          /\ pc[t] = "done" => pc'[t] = "done"]_vars

\* one session has gone through naming, a command and teardown while another
\* is past naming and a third was torn down without ever being named
C28_Witness ==
    /\ \E t \in Workers : pc[t] = "done" /\ reg[t] /\ arg[t] = ExitCmd
    /\ \E t \in Workers : pc[t] = "cmd_recv"
    /\ \E t \in Workers : pc[t] = "done" /\ ~reg[t]

\* ---------------------------------------------------------------- C30
\* session t returns from handle_whisper
WhisperBy(t) == pc[t] = "whisper" /\ pc'[t] # "whisper"

\* the connections of the active sessions registered under name u
Registered(u) == {OwnerOf(i) : i \in {j \in Slots : clients[j].active /\ clients[j].username = u}}

WhisperLines == [c \in Conns |-> sent[c]["whisper"]]

\* C30: a /whisper to a name an active session is registered under delivers
\* exactly one whisper line, to that session, and the success line to the
\* sender; a /whisper to a name no active session holds gives the sender the
\* not-found error and delivers no whisper line to anyone.
C30_WhisperDelivered ==
    [][\A t \in Workers :
          WhisperBy(t) =>
              IF Registered(arg[t].a) # {}
              THEN /\ \E c \in Registered(arg[t].a) :
                        WhisperLines' = [WhisperLines EXCEPT ![c] = @ + 1]
                   /\ sent'[t]["whisper_ok"] = sent[t]["whisper_ok"] + 1
                   /\ sent'[t]["notfound"] = sent[t]["notfound"]
              ELSE /\ WhisperLines' = WhisperLines
                   /\ sent'[t]["notfound"] = sent[t]["notfound"] + 1
                   /\ sent'[t]["whisper_ok"] = sent[t]["whisper_ok"]]_vars

\* ---------------------------------------------------------------- C29
ActiveRooms == {i \in RoomSlots : rooms[i].active}

\* session t comes out of the second loop of find_or_create_room, entered with
\* every room slot active and none of them named as the /join asks
JoinWhenAllActive(t) ==
    /\ pc[t] = "foc2" /\ pc'[t] # "foc2"
    /\ ActiveRooms = RoomSlots
    /\ \A i \in RoomSlots : rooms[i].name # arg[t].a

\* C29: the number of active rooms never exceeds MAX_ROOMS, and a /join of a
\* room that does not exist while every room slot is active gets the "Unable
\* to join room" error, creates no room and leaves the session in no room: its
\* current_room is empty and no room lists it as a member.
C29_RoomCap ==
    [][/\ Cardinality(ActiveRooms) <= MAX_ROOMS
       /\ \A t \in Workers :
             JoinWhenAllActive(t) =>
                 /\ sent'[t]["unable"] = sent[t]["unable"] + 1
                 /\ rooms' = rooms
                 /\ pc'[t] = "cmd_loop"
                 /\ clients'[cslot[t]].current_room = Empty
                 /\ RoomsOfNext(cslot[t]) = {}]_vars

\* ---------------------------------------------------------------- C26
\* C26: once SIGINT has arrived, on whichever thread and whatever that thread
\* holds, the handler eventually gets through: the accept loop has stopped, the
\* SHUTDOWN record is written and the process has exited.
C26_ShutdownCompletes ==
    (sigpc # "none") ~> (exited /\ logged["SHUTDOWN"] = 1)

\* ---------------------------------------------------------------- C24
\* the sessions inside the loop of broadcast_to_room
FanningOut == {t \in Workers : pc[t] \in {"bc_send", "bc_unlock"}}

\* x comes before y in sequence p
Before(p, x, y) == \E k \in 1 .. Len(p) : \E l \in 1 .. Len(p) : k < l /\ p[k] = x /\ p[l] = y

\* the lines of different broadcasts in q follow each other as the broadcasts do in p
SameOrder(q, p) ==
    \A i \in 1 .. Len(q) : \A j \in 1 .. Len(q) :
        (i < j /\ q[i] # q[j]) => Before(p, q[i], q[j])

Registry == {"clients_mutex", "rooms_mutex"}
Held(t) == {l \in Locks : holder[l] = t}
Wants(t) == IF ops[t] # <<>> /\ Head(ops[t]).k = "lock" THEN {Head(ops[t]).l} ELSE {}
Sending(t) == ops[t] # <<>> /\ Head(ops[t]).k = "send"

\* t waits for a mutex that u holds
WaitsFor(t, u) == \E l \in Wants(t) : holder[l] = u

\* a set of worker threads (session workers, transfer worker) each of which
\* waits for one of the set
LockCycle ==
    \E S \in SUBSET (LockThreads \ {MainT}) : S # {} /\ \A t \in S : \E u \in S : WaitsFor(t, u)

\* C22: no thread asks for clients_mutex while it holds rooms_mutex; a thread
\* that holds upload_queue.mutex is not at a send and neither holds nor asks
\* for a registry mutex; a thread that holds log_mutex asks for no mutex; and
\* no set of threads wait for each other's mutexes.
C22_LockDiscipline ==
    /\ \A t \in LockThreads :
          /\ "clients_mutex" \in Wants(t) => "rooms_mutex" \notin Held(t)
          /\ "upload_queue.mutex" \in Held(t) =>
                 (~Sending(t) /\ Held(t) \cap Registry = {} /\ Wants(t) \cap Registry = {})
          /\ "log_mutex" \in Held(t) => Wants(t) = {}
    /\ ~LockCycle

\* ---------------------------------------------------------------- C27
\* thread t is at one of the three writes of a log record
AtWrite(t) == ops[t] # <<>> /\ Head(ops[t]).k = "write"

\* thread t has written the timestamp of a record and not yet its newline
MidRecord(t) == AtWrite(t) /\ Head(ops[t]).l \in {"message", "newline"}

\* C27: a thread writes to the log only inside log_mutex, so while one thread
\* is part-way through a record no other thread is at a write of the log.
C27_LogSerialised ==
    \A t \in LockThreads :
        /\ AtWrite(t) => holder["log_mutex"] = t
        /\ MidRecord(t) => \A u \in LockThreads \ {t} : ~AtWrite(u)

\* one thread is part-way through a record while two others wait at log_mutex
\* with records of their own
C27_Witness ==
    \E t \in LockThreads :
        /\ MidRecord(t)
        /\ Cardinality({u \in LockThreads \ {t} : "log_mutex" \in Wants(u)}) >= 2

\* ---------------------------------------------------------------- C31
\* the command in hand of session t names a file that stat() fails on
StatFails(t) == arg[t].op = "sendfile" /\ ~FileOf(arg[t].f).stat

InQueuePath(t) == pc[t] \in {"sf_try", "sf_wait", "sf_enq", "sf_post"}

\* C31: a /sendfile of a path that cannot be stat'ed is turned down in
\* handle_file_send before the queue: the handler returns to the command loop
\* from its checks, with the queue and its permits as they were, and no session
\* is ever on the way to the queue with such a file.
C31_StatFailureRejected ==
    [][\A t \in Workers :
          /\ (pc[t] = "sf_start" /\ StatFails(t) /\ pc'[t] # pc[t])
                 => (pc'[t] = "cmd_loop" /\ upq' = upq /\ committed' = committed)
          /\ InQueuePath(t) => ~StatFails(t)]_vars

\* ---------------------------------------------------------------- C32
\* a session registered as u has its stream open
Online(u) == \E t \in Workers : reg[t] /\ uname[t] = u /\ connst[t] = "open"

\* the transfer worker comes out of the delivery of the record it dequeued
DeliverStep == xpc = "x_deliver" /\ xpc' = "x_post"

\* C32: the transfer worker posts slots once for every record it has dequeued,
\* at the end of that record's turn, so no permit stays lost; and the delivery
\* of a record whose receiver is offline by then sends no [FILE] line and logs
\* a failure.
C32_ReleasedOnce ==
    [][/\ released <= Len(processed)
       /\ Len(processed) <= released + 1
       /\ xpc \in {"x_top", "x_wait", "x_done"} => released = Len(processed)
       /\ (DeliverStep /\ ~Online(xrec.receiver)) =>
              /\ FileLines' = FileLines
              /\ logged'["SEND FILE failed"] = logged["SEND FILE failed"] + 1
              /\ logged'["SEND FILE ok"] = logged["SEND FILE ok"]]_vars

\* ---------------------------------------------------------------- C33
\* session t is sent the invalid-room-name error
BadRoomReply(t) == sent'[t]["badroom"] = sent[t]["badroom"] + 1

\* C33: when a /join with an invalid room name is answered with the
\* invalid-name error, the session has already left the room it was in: its
\* current_room is empty and no room lists it.
C33_LeaveBeforeValidate ==
    [][\A t \in Workers :
          BadRoomReply(t) =>
              /\ clients'[cslot[t]].current_room = Empty
              /\ RoomsOfNext(cslot[t]) = {}]_vars

\* ---------------------------------------------------------------- C34
\* the lines connection c has sent the text of, its segments being text and LF
\* in turn
LinesSent(c) == (ncmd[c] + 1) \div 2

\* the replies that turn a username down
NameRejections(c) == sent[c]["badname"] + sent[c]["taken"]

\* C34: a line sent as its text followed by its LF in a segment of its own is
\* answered as the line sent whole is, that is once: a connection is never sent
\* more username rejections than it has sent lines, and the LF that follows a
\* command in the Active state changes nothing and gets no reply.
C34_SplitLineSameReplies ==
    [][/\ \A c \in Conns : NameRejections(c) <= LinesSent(c)
       /\ \A t \in Workers :
             (pc[t] = "cmd_recv" /\ arg'[t] = EmptyLineCmd /\ arg[t] # EmptyLineCmd)
                 => (sent' = sent /\ clients' = clients /\ rooms' = rooms)]_vars

====
